---- MODULE Spec2Model ----
(***************************************************************************)
(* Mutation primitives of lib/infrastructure/repository/sqla/models.py     *)
(* (ModelBase.save / delete / update, SoftModelBase.delete) acting on the  *)
(* mapped entities of that file through one transactional session.         *)
(*                                                                         *)
(* The session and the storage engine are collaborators of the code.  They *)
(* are modelled by their contract: session.add attaches an object,         *)
(* session.delete marks a persistent object for removal, session.flush     *)
(* writes every pending INSERT / UPDATE / DELETE of the session statement  *)
(* by statement, the engine checking the declared constraints on each      *)
(* statement.  A failing statement raises IntegrityError, undoes the whole *)
(* flush and restores the session (pending objects expunged, persistent    *)
(* objects reloaded).  Every successful flush is taken as durable.  Column *)
(* values are integers; NULL stands for None / NULL.  Columns no property  *)
(* below reads (sub, type and status of source data, lfn, ...) are left    *)
(* out and taken to hold valid values.                                     *)
(***************************************************************************)
EXTENDS Integers, Sequences, FiniteSets, TLC

VARIABLES
    mem,        \* in-memory attributes of every entity object
    storage,    \* persisted rows, keyed by the object whose row it is
    attached,   \* objects in the session (pending or persistent)
    toDelete,   \* objects marked by session.delete, not yet flushed
    now,        \* the clock read by datetime.utcnow
    last        \* the last primitive called: arguments, error, session calls

vars == <<mem, storage, attached, toDelete, now, last>>

\* Largest clock reading explored.
MaxTime == 1

NULL == -1
BTrue == 1
BFalse == 0

SessionNotFound == "Session not found"
IntegrityError == "IntegrityError"
InvalidRequestError == "InvalidRequestError"
NoError == "none"

Objs == {"c1", "c2", "s1", "s2", "v1", "m1", "u1", "ct1"}

Kind(o) ==
    CASE o \in {"c1", "c2"} -> "Client"
      [] o \in {"s1", "s2"} -> "SourceData"
      [] o = "v1" -> "VectorStore"
      [] o = "m1" -> "AgentMessage"
      [] o = "u1" -> "UserMessage"
      [] o = "ct1" -> "Citation"

\* Primary key the row of an object gets (autoincrement per table; the two
\* message variants share message_base.id).
Id(o) ==
    CASE o \in {"c1", "s1", "v1", "m1", "ct1"} -> 1
      [] o \in {"c2", "s2", "u1"} -> 2

\* Classes built on SoftModelBase; SQLAVectorStore is built on ModelBase.
IsSoft(k) == k # "VectorStore"

\* Tables that carry the CHECK constraints of the base classes'
\* __table_args__.  SQLASourceData assigns its own __table_args__ (the unique
\* index alone), which replaces the inherited one.
HasCheckConstraints(k) == k # "SourceData"

Table(k) ==
    CASE k = "Client" -> "client"
      [] k = "SourceData" -> "source_data"
      [] k = "VectorStore" -> "vector_store"
      [] k \in {"AgentMessage", "UserMessage"} -> "message_base"
      [] k = "Citation" -> "citation"

\* Tables in dependency order (referenced before referencing), the order in
\* which a flush writes them; deletes run in the reverse order.
TableOrder == <<"client", "source_data", "vector_store", "message_base", "citation">>

\* Objects in primary-key order within each table.
ObjOrder == <<"c1", "c2", "s1", "s2", "v1", "m1", "u1", "ct1">>

\* Every message class mapped under the identity of the base class.
PolymorphicIdentity_Base(k) ==
    IF k \in {"AgentMessage", "UserMessage"} THEN "message_base" ELSE "none"

PolymorphicIdentity(k) ==
    CASE k = "AgentMessage" -> "agent_message"
      [] k = "UserMessage" -> "user_message"
      [] OTHER -> "none"

\* The class a message_base row is loaded as, from its discriminator.
PolymorphicMap(t) ==
    CASE t = "agent_message" -> "AgentMessage"
      [] t = "user_message" -> "UserMessage"
      [] t = "message_base" -> "MessageBase"
      [] OTHER -> "none"

Names == {1, 2}
Paths == {1, 2}
Protocols == {1, 2}

Blank ==
    [id |-> NULL, created_at |-> NULL, updated_at |-> NULL,
     deleted |-> NULL, deleted_at |-> NULL,
     name |-> NULL, relative_path |-> NULL, protocol |-> NULL, client_id |-> NULL,
     type |-> "none", source_data_id |-> NULL, agent_message_id |-> NULL]

\* A freshly constructed SourceData.
NewSourceData(client, path, protocol) ==
    [Blank EXCEPT !.name = 1, !.relative_path = path, !.protocol = protocol,
                  !.client_id = client]

\* A freshly constructed object of every other class.  The mapper sets the
\* discriminator of a message from the class constructed; the citation cites
\* source data 1 in agent message 1.
New(o) ==
    CASE Kind(o) = "Citation" ->
            [Blank EXCEPT !.source_data_id = Id("s1"), !.agent_message_id = Id("m1")]
      [] Kind(o) \in {"AgentMessage", "UserMessage"} ->
            [Blank EXCEPT !.type = PolymorphicIdentity(Kind(o))]
      [] Kind(o) = "SourceData" -> NewSourceData(Id("c1"), 1, 1)
      [] Kind(o) = "VectorStore" -> [Blank EXCEPT !.name = 1]
      [] OTHER -> Blank

----------------------------------------------------------------------------
\* Storage engine: the constraints declared on the tables.

NotNullOK(k, r) ==
    /\ r.id # NULL
    /\ k = "VectorStore" => r.name # NULL
    /\ k = "SourceData" =>
          /\ r.name # NULL
          /\ r.relative_path # NULL
          /\ r.protocol # NULL
          /\ r.client_id # NULL
    /\ k = "Citation" => r.source_data_id # NULL /\ r.agent_message_id # NULL

CheckOK(k, r) ==
    HasCheckConstraints(k) =>
        /\ r.created_at # NULL
        /\ r.updated_at # NULL
        /\ IsSoft(k) => r.deleted # NULL

SourceDataKey(r) == <<r.client_id, r.relative_path, r.protocol>>

\* The index without unique=True.
UniqueOK_NotUnique(o, r, db) == TRUE

\* The index restricted to the rows that are not soft-deleted.
UniqueOK_LiveOnly(o, r, db) ==
    Kind(o) = "SourceData" =>
        \A p \in DOMAIN db \ {o} :
            (Kind(p) = "SourceData" /\ db[p].deleted # BTrue)
                => SourceDataKey(db[p]) # SourceDataKey(r)

\* uix_client_id_relative_path_protocol
UniqueOK(o, r, db) ==
    Kind(o) = "SourceData" =>
        \A p \in DOMAIN db \ {o} :
            Kind(p) = "SourceData" => SourceDataKey(db[p]) # SourceDataKey(r)

Refers(r, col, k, db) ==
    \E p \in DOMAIN db : Kind(p) = k /\ db[p].id = r[col]

ForeignKeyOK(o, r, db) ==
    /\ Kind(o) = "SourceData" => Refers(r, "client_id", "Client", db)
    /\ Kind(o) = "Citation" =>
          /\ Refers(r, "source_data_id", "SourceData", db)
          /\ Refers(r, "agent_message_id", "AgentMessage", db)

RowOK(o, r, db) ==
    /\ NotNullOK(Kind(o), r)
    /\ CheckOK(Kind(o), r)
    /\ UniqueOK(o, r, db)
    /\ ForeignKeyOK(o, r, db)

\* A row may be removed only when no remaining row references it.
DeleteOK(o, db) ==
    \A p \in DOMAIN db \ {o} :
        /\ (Kind(o) = "Client" /\ Kind(p) = "SourceData") => db[p].client_id # db[o].id
        /\ (Kind(o) = "SourceData" /\ Kind(p) = "Citation") => db[p].source_data_id # db[o].id
        /\ (Kind(o) = "AgentMessage" /\ Kind(p) = "Citation") => db[p].agent_message_id # db[o].id

Put(db, o, r) == [p \in DOMAIN db \cup {o} |-> IF p = o THEN r ELSE db[p]]

Remove(db, o) == [p \in DOMAIN db \ {o} |-> db[p]]

----------------------------------------------------------------------------
\* Loading.

\* session.get(SQLAMessageBase, id): the class the row is loaded as.
LoadedClass(id, db) ==
    IF \E p \in DOMAIN db : Table(Kind(p)) = "message_base" /\ db[p].id = id
    THEN PolymorphicMap(
            db[CHOOSE p \in DOMAIN db :
                  Table(Kind(p)) = "message_base" /\ db[p].id = id].type)
    ELSE "none"

\* SQLAAgentMessage.citations of the agent message with this id.
citations(id, db) ==
    {c \in DOMAIN db : Kind(c) = "Citation" /\ db[c].agent_message_id = id}

\* SQLAAgentMessage.source_data of the agent message with this id: one item
\* per row of the join through the citation table.
source_data(id, db) ==
    {<<c, p>> \in citations(id, db) \X DOMAIN db :
        Kind(p) = "SourceData" /\ db[p].id = db[c].source_data_id}

----------------------------------------------------------------------------
\* Column defaults.

\* INSERT: an attribute left None takes the column's default.
InsertRow(o, m, t) ==
    [m EXCEPT !.id = Id(o),
              !.created_at = IF @ = NULL THEN t ELSE @,
              !.updated_at = IF @ = NULL THEN t ELSE @,
              !.deleted = IF @ = NULL /\ IsSoft(Kind(o)) THEN BFalse ELSE @]

\* UPDATE that leaves updated_at to the caller.
UpdateRow_NoOnupdate(m, old, t) == m

\* UPDATE: onupdate fires unless the statement sets updated_at itself.
UpdateRow(m, old, t) ==
    [m EXCEPT !.updated_at = IF m.updated_at = old.updated_at THEN t ELSE @]

----------------------------------------------------------------------------
\* Session.

RECURSIVE SaveStmts(_, _, _, _)
\* Per table in dependency order: the UPDATEs, then the INSERTs.
SaveStmts(tables, m, db, att) ==
    IF tables = <<>> THEN <<>>
    ELSE LET tb == Head(tables)
             Upd(o) == /\ Table(Kind(o)) = tb /\ o \in att
                       /\ o \in DOMAIN db /\ m[o] # db[o]
             Ins(o) == /\ Table(Kind(o)) = tb /\ o \in att
                       /\ o \notin DOMAIN db
             Stmt(op, seq) == [i \in 1..Len(seq) |-> [op |-> op, obj |-> seq[i]]]
         IN Stmt("update", SelectSeq(ObjOrder, Upd))
              \o Stmt("insert", SelectSeq(ObjOrder, Ins))
              \o SaveStmts(Tail(tables), m, db, att)

RECURSIVE DeleteStmts(_, _)
\* Per table in reverse dependency order: the DELETEs.
DeleteStmts(tables, del) ==
    IF tables = <<>> THEN <<>>
    ELSE LET tb == tables[Len(tables)]
             Del(o) == Table(Kind(o)) = tb /\ o \in del
             seq == SelectSeq(ObjOrder, Del)
         IN [i \in 1..Len(seq) |-> [op |-> "delete", obj |-> seq[i]]]
              \o DeleteStmts(SubSeq(tables, 1, Len(tables) - 1), del)

RECURSIVE Exec(_, _, _, _)
\* Runs the statements in order; the first one the engine rejects ends it.
Exec(stmts, m, db, t) ==
    IF stmts = <<>> THEN [ok |-> TRUE, db |-> db]
    ELSE LET s == Head(stmts)
             o == s.obj
             r == IF s.op = "insert" THEN InsertRow(o, m[o], t)
                  ELSE IF s.op = "update" THEN UpdateRow(m[o], db[o], t)
                  ELSE db[o]
         IN IF s.op = "delete"
            THEN IF DeleteOK(o, db)
                 THEN Exec(Tail(stmts), m, Remove(db, o), t)
                 ELSE [ok |-> FALSE, db |-> db]
            ELSE IF RowOK(o, r, db)
                 THEN Exec(Tail(stmts), m, Put(db, o, r), t)
                 ELSE [ok |-> FALSE, db |-> db]

\* session.flush() at clock reading t, with in-memory state m, session
\* contents att and deletion marks del.
Flush(m, att, del, t) ==
    LET live == att \ del
        res == Exec(SaveStmts(TableOrder, m, storage, live)
                      \o DeleteStmts(TableOrder, del), m, storage, t)
    IN IF res.ok
       THEN [err |-> NoError,
             db |-> res.db,
             mem |-> [o \in Objs |-> IF o \in live THEN res.db[o] ELSE m[o]],
             attached |-> live,
             toDelete |-> {}]
       ELSE [err |-> IntegrityError,
             db |-> storage,
             mem |-> [o \in Objs |-> IF o \in DOMAIN storage THEN storage[o] ELSE m[o]],
             attached |-> att \cap DOMAIN storage,
             toDelete |-> {}]

\* An object that had a row and lost it to a flushed DELETE.
Gone(m, o) == m[o].id # NULL /\ o \notin DOMAIN storage

\* Rows a session.delete of o takes with it: the relationship
\* SQLAClient.source_data cascades "all, delete".
Cascade(o) ==
    IF Kind(o) = "Client"
    THEN {p \in DOMAIN storage :
            Kind(p) = "SourceData" /\ storage[p].client_id = Id(o)}
    ELSE {}

Result(err, calls, db, m, att, del) ==
    [err |-> err, calls |-> calls, db |-> db, mem |-> m,
     attached |-> att, toDelete |-> del]

WithCalls(f, calls) ==
    Result(f.err, calls, f.db, f.mem, f.attached, f.toDelete)

----------------------------------------------------------------------------
\* The mutation primitives.  Each yields the error raised ("none" when it
\* returns), the calls made on the session, and the state it leaves.

\* session.add(self), then session.flush() when flush is set.
AddThenFlush(m, o, flush, t) ==
    IF Gone(m, o)
    THEN Result(InvalidRequestError, <<"add">>, storage, m, attached, toDelete)
    ELSE IF flush
    THEN WithCalls(Flush(m, attached \cup {o}, toDelete \ {o}, t), <<"add", "flush">>)
    ELSE Result(NoError, <<"add">>, storage, m, attached \cup {o}, toDelete \ {o})

\* save that returns quietly when no session is given.
ModelBase_save_Silent(m, o, flush, sess, t) ==
    IF sess = "None"
    THEN Result(NoError, <<>>, storage, m, attached, toDelete)
    ELSE AddThenFlush(m, o, flush, t)

ModelBase_save(m, o, flush, sess, t) ==
    IF sess = "None"
    THEN Result(SessionNotFound, <<>>, storage, m, attached, toDelete)
    ELSE AddThenFlush(m, o, flush, t)

ModelBase_delete(m, o, flush, sess, t) ==
    IF sess = "None"
    THEN Result(SessionNotFound, <<>>, storage, m, attached, toDelete)
    ELSE IF o \notin DOMAIN storage
    THEN Result(InvalidRequestError, <<"delete">>, storage, m, attached, toDelete)
    ELSE IF flush
    THEN WithCalls(Flush(m, attached \cup {o}, toDelete \cup {o} \cup Cascade(o), t),
                   <<"delete", "flush">>)
    ELSE Result(NoError, <<"delete">>, storage, m, attached \cup {o},
                toDelete \cup {o} \cup Cascade(o))

\* for k, v in values.items(): self[k] = v
SetItems(r, values) ==
    [f \in DOMAIN r |-> IF f \in DOMAIN values THEN values[f] ELSE r[f]]

ModelBase_update(m, o, values, flush, sess, t) ==
    IF sess = "None"
    THEN Result(SessionNotFound, <<>>, storage, m, attached, toDelete)
    ELSE LET m1 == [m EXCEPT ![o] = SetItems(@, values)]
         IN IF flush
            THEN WithCalls(Flush(m1, attached, toDelete, t), <<"flush">>)
            ELSE Result(NoError, <<>>, storage, m1, attached, toDelete)

\* t1 is the clock reading taken by the method, t2 the one taken by the flush.
SoftModelBase_delete(m, o, flush, sess, t1, t2) ==
    LET m1 == [m EXCEPT ![o].deleted = BTrue, ![o].deleted_at = t1]
    IN ModelBase_save(m1, o, TRUE, sess, t2)

----------------------------------------------------------------------------
\* Inputs.

Sessions == {"None", "S"}

Mapping(f, v) == [k \in {f} |-> v]

\* The mappings passed to update: a None for a column the base classes
\* declare, a new name, a new relative path.
NullOf(cols) == {Mapping(c, NULL) : c \in cols}

Rename == {Mapping("name", n) : n \in Names}

Move == {Mapping("relative_path", p) : p \in Paths}

\* Clock readings a later call of utcnow within the same primitive can return.
ClockAfter(t) == {u \in t..(t + 1) : u <= MaxTime}

----------------------------------------------------------------------------
\* Actions.

Apply(res, op, o, flush, sess) ==
    /\ mem' = res.mem
    /\ storage' = res.db
    /\ attached' = res.attached
    /\ toDelete' = res.toDelete
    /\ last' = [op |-> op, obj |-> o, flush |-> flush, sess |-> sess,
                err |-> res.err, calls |-> res.calls]

Save(o, flush, sess) ==
    /\ Apply(ModelBase_save(mem, o, flush, sess, now), "save", o, flush, sess)
    /\ UNCHANGED now

HardDelete(o, flush, sess) ==
    /\ ~IsSoft(Kind(o))
    /\ Apply(ModelBase_delete(mem, o, flush, sess, now), "delete", o, flush, sess)
    /\ UNCHANGED now

SoftDelete(o, flush, sess) ==
    /\ IsSoft(Kind(o))
    /\ \E t2 \in ClockAfter(now) :
          /\ Apply(SoftModelBase_delete(mem, o, flush, sess, now, t2),
                   "delete", o, flush, sess)
          /\ now' = t2

Update(o, values, flush, sess) ==
    /\ Apply(ModelBase_update(mem, o, values, flush, sess, now), "update", o, flush, sess)
    /\ UNCHANGED now

Tick ==
    /\ now < MaxTime
    /\ now' = now + 1
    /\ UNCHANGED <<mem, storage, attached, toDelete, last>>

----------------------------------------------------------------------------
\* Specifications.

InitLast ==
    [op |-> "init", obj |-> "none", flush |-> FALSE, sess |-> "None",
     err |-> NoError, calls |-> <<>>]

Fresh == [o \in Objs |-> New(o)]

\* The state at clock reading t in which the objects of P, constructed as m
\* gives them, were saved and flushed at clock reading 0 and every other
\* object has just been constructed.
Saved(P, m, t) ==
    /\ mem = [o \in Objs |-> IF o \in P THEN InsertRow(o, m[o], 0) ELSE m[o]]
    /\ storage = [o \in P |-> InsertRow(o, m[o], 0)]
    /\ attached = P
    /\ toDelete = {}
    /\ now = t
    /\ last = InitLast

\* Session contract of the four primitives: a client (soft-deletable) and a
\* vector store (physically deleted), nothing stored yet.  The contract reads
\* no timestamp: the clock stands at its last reading.
Init == Saved({}, Fresh, MaxTime)

ContractObjs == {"c1", "v1"}

ContractValues(k) == IF k = "VectorStore" THEN Rename ELSE NullOf({"deleted"})

Next ==
    \/ \E o \in ContractObjs, flush \in BOOLEAN, sess \in Sessions : Save(o, flush, sess)
    \/ \E o \in ContractObjs, flush \in BOOLEAN, sess \in Sessions : HardDelete(o, flush, sess)
    \/ \E o \in ContractObjs, flush \in BOOLEAN, sess \in Sessions : SoftDelete(o, flush, sess)
    \/ \E o \in ContractObjs, flush \in BOOLEAN, sess \in Sessions :
          \E values \in ContractValues(Kind(o)) : Update(o, values, flush, sess)

Spec == Init /\ [][Next]_vars

\* Soft deletion and the base columns: a client and one of its source data,
\* nothing stored yet, the clock running.
InitSoft == Saved({}, Fresh, 0)

SoftObjs == {"c1", "s1"}

SoftValues(k) == NullOf({"created_at"})

NextSoft ==
    \/ \E o \in SoftObjs, flush \in BOOLEAN, sess \in Sessions : Save(o, flush, sess)
    \/ \E o \in SoftObjs, flush \in BOOLEAN, sess \in Sessions : SoftDelete(o, flush, sess)
    \/ \E o \in SoftObjs, flush \in BOOLEAN, sess \in Sessions :
          \E values \in SoftValues(Kind(o)) : Update(o, values, flush, sess)
    \/ Tick

SpecSoft == InitSoft /\ [][NextSoft]_vars

\* update on a source data whose client is already stored, the clock running.
InitUpdate == Saved({"c1"}, Fresh, 0)

UpdateObjs == {"s1"}

UpdateValues(k) == Rename \cup NullOf({"updated_at"})

NextUpdate ==
    \/ \E o \in UpdateObjs, flush \in BOOLEAN, sess \in Sessions : Save(o, flush, sess)
    \/ \E o \in UpdateObjs, flush \in BOOLEAN, sess \in Sessions : SoftDelete(o, flush, sess)
    \/ \E o \in UpdateObjs, flush \in BOOLEAN, sess \in Sessions :
          \E values \in UpdateValues(Kind(o)) : Update(o, values, flush, sess)
    \/ Tick

SpecUpdate == InitUpdate /\ [][NextUpdate]_vars

\* The unique index: two stored clients and two source data, the second
\* constructed with the key of the first or with a key that differs from it
\* in one column.  The index reads no timestamp: the clock stands at its last
\* reading.
UniqueObjs == {"s1", "s2"}

UniqueValues(k) == Move

InitUnique ==
    \E k \in {<<1, 1, 1>>, <<2, 1, 1>>, <<1, 2, 1>>, <<1, 1, 2>>} :
        Saved({"c1", "c2"},
              [Fresh EXCEPT !["s2"] = NewSourceData(k[1], k[2], k[3])], MaxTime)

NextUnique ==
    \/ \E o \in UniqueObjs, flush \in BOOLEAN, sess \in Sessions : Save(o, flush, sess)
    \/ \E o \in UniqueObjs, flush \in BOOLEAN, sess \in Sessions : SoftDelete(o, flush, sess)
    \/ \E o \in UniqueObjs, flush \in BOOLEAN, sess \in Sessions :
          \E values \in UniqueValues(Kind(o)) : Update(o, values, flush, sess)

SpecUnique == InitUnique /\ [][NextUnique]_vars

\* The message hierarchy: an agent message and a citation of source data 1
\* in it; that source data, its client and a user message are already stored.
\* Loading reads no timestamp: the clock stands at its last reading.
InitMessage == Saved({"c1", "s1", "u1"}, Fresh, MaxTime)

MessageObjs == {"m1", "ct1"}

MessageValues(k) == NullOf({"deleted"})

NextMessage ==
    \/ \E o \in MessageObjs, flush \in BOOLEAN, sess \in Sessions : Save(o, flush, sess)
    \/ \E o \in MessageObjs, flush \in BOOLEAN, sess \in Sessions : SoftDelete(o, flush, sess)
    \/ \E o \in MessageObjs, flush \in BOOLEAN, sess \in Sessions :
          \E values \in MessageValues(Kind(o)) : Update(o, values, flush, sess)

SpecMessage == InitMessage /\ [][NextMessage]_vars

----------------------------------------------------------------------------
\* Properties of the session contract (Spec).

\* C2: save and delete (physical or soft) with any flush value, and update
\* with flush requested, called without a session, raise "Session not found"
\* and make no call on any session.
C2_NoSessionRaises ==
    (last.sess = "None"
       /\ (last.op \in {"save", "delete"} \/ (last.op = "update" /\ last.flush)))
    => (last.err = SessionNotFound /\ last.calls = <<>>)

\* A soft delete without a session has raised, with no session call made.
C2_Witness ==
    /\ last.op = "delete" /\ IsSoft(Kind(last.obj)) /\ last.sess = "None"
    /\ last.err = SessionNotFound /\ last.calls = <<>>

\* C8: a soft delete called with flush = false and a session attaches the
\* entity and makes no flush call on the session.
C8_SoftDeleteHonoursFlush ==
    (last.op = "delete" /\ IsSoft(Kind(last.obj)) /\ last.sess = "S" /\ ~last.flush)
    => last.calls = <<"add">>

\* C9: a primitive that fails with "Session not found" leaves every field of
\* the in-memory entity as it was before the call.
C9_FailedCallLeavesEntity ==
    [][\A o \in Objs, flush \in BOOLEAN :
          (\/ Save(o, flush, "None")
           \/ HardDelete(o, flush, "None")
           \/ SoftDelete(o, flush, "None")
           \/ \E values \in ContractValues(Kind(o)) : Update(o, values, flush, "None"))
          => (last'.err = SessionNotFound /\ mem'[o] = mem[o])]_vars

----------------------------------------------------------------------------
\* Properties of soft deletion and of the base columns (SpecSoft).

\* a >= b between timestamps; no comparison with NULL is true.
AtLeast(a, b) == a # NULL /\ b # NULL /\ a >= b

\* C1: delete with a session on a soft-deletable entity that has a row, when
\* it returns, leaves the row in place with deleted = true and deleted_at a
\* non-null timestamp at least the row's created_at.
C1_SoftDeleteKeepsRow ==
    [][\A o \in Objs, flush \in BOOLEAN :
          (o \in DOMAIN storage /\ SoftDelete(o, flush, "S") /\ last'.err = NoError)
          => /\ o \in DOMAIN storage'
             /\ storage'[o].deleted = BTrue
             /\ AtLeast(storage'[o].deleted_at, storage'[o].created_at)]_vars

\* C3: delete with a session on a stored client that owns source_data rows,
\* once it has returned and flushed, leaves no source_data row with that
\* client_id.
C3_ClientDeleteRemovesSourceData ==
    [][\A o \in Objs, flush \in BOOLEAN :
          LET Owned(db) == {p \in DOMAIN db : Kind(p) = "SourceData"
                                               /\ db[p].client_id = Id(o)}
          IN (/\ Kind(o) = "Client" /\ o \in DOMAIN storage /\ Owned(storage) # {}
              /\ SoftDelete(o, flush, "S")
              /\ last'.err = NoError /\ last'.calls = <<"add", "flush">>)
             => Owned(storage') = {}]_vars

\* C5: no persisted row has a null created_at or updated_at nor, for a
\* soft-deletable entity, a null deleted.
C5_NoNullBaseColumns ==
    \A o \in DOMAIN storage :
        /\ storage[o].created_at # NULL
        /\ storage[o].updated_at # NULL
        /\ IsSoft(Kind(o)) => storage[o].deleted # NULL

----------------------------------------------------------------------------
\* Properties of update (SpecUpdate).

\* update({"name": x}, flush=True, session) on a stored source data o whose
\* in-memory state is the stored one (it has just been fetched), returning
\* without error.
Renamed(o, x) ==
    /\ Kind(o) = "SourceData"
    /\ o \in DOMAIN storage
    /\ mem[o] = storage[o]
    /\ Update(o, Mapping("name", x), TRUE, "S")
    /\ last'.err = NoError

\* The columns of a row other than name and updated_at.
OtherColumns == DOMAIN Blank \ {"name", "updated_at"}

\* C6 as stated: the row then read back has name x, every other column but
\* updated_at unchanged, and an updated_at strictly greater than before.
C6_UpdateStrictlyLater ==
    [][\A o \in Objs, x \in Names :
          Renamed(o, x)
          => /\ storage'[o].name = x
             /\ \A f \in OtherColumns : storage'[o][f] = storage[o][f]
             /\ storage'[o].updated_at > storage[o].updated_at]_vars

\* C6 amended: the row then read back has name x and every other column but
\* updated_at unchanged; when x differs from the stored name updated_at is the
\* clock reading of the flush, when x is the stored name it is unchanged; a
\* non-null updated_at never decreases.
C6_UpdateRefreshesOnChange ==
    [][\A o \in Objs, x \in Names :
          Renamed(o, x)
          => /\ storage'[o].name = x
             /\ \A f \in OtherColumns : storage'[o][f] = storage[o][f]
             /\ x # storage[o].name => storage'[o].updated_at = now
             /\ x = storage[o].name => storage'[o].updated_at = storage[o].updated_at
             /\ storage[o].updated_at # NULL
                   => storage'[o].updated_at >= storage[o].updated_at]_vars

\* A rename has been flushed at a later clock reading than the insert.
C6_Witness ==
    /\ last.op = "update" /\ last.obj = "s1" /\ last.flush /\ last.sess = "S"
    /\ last.err = NoError
    /\ "s1" \in DOMAIN storage
    /\ storage["s1"].name = 2
    /\ storage["s1"].updated_at > storage["s1"].created_at

----------------------------------------------------------------------------
\* Properties of the unique index of source_data (SpecUnique).

SourceDataRows(db) == {p \in DOMAIN db : Kind(p) = "SourceData"}

\* Stored rows other than o's that hold key k and are not about to be moved
\* off it by a pending change of their own.
Holders(o, k) ==
    {p \in SourceDataRows(storage) \ {o} :
        SourceDataKey(storage[p]) = k /\ SourceDataKey(mem[p]) = k}

\* Nothing but o is waiting to be written by the next flush.
OnlyPending(o) ==
    /\ toDelete = {}
    /\ \A p \in attached \ {o} : p \in DOMAIN storage /\ mem[p] = storage[p]

NoDuplicateKeys ==
    \A p, q \in SourceDataRows(storage) :
        SourceDataKey(storage[p]) = SourceDataKey(storage[q]) => p = q

\* save(flush=True, session) of a source data o that has no row yet.
SavedNew(o) ==
    /\ Kind(o) = "SourceData"
    /\ o \notin DOMAIN storage
    /\ Save(o, TRUE, "S")

\* C4: no two source_data rows ever share (client_id, relative_path,
\* protocol); saving and flushing a new source data whose key a stored row
\* holds fails with IntegrityError and leaves storage unchanged; saving and
\* flushing, as the only pending write, one whose key differs from every
\* stored row's (its other columns valid) stores it.
C4_UniqueKey ==
    /\ []NoDuplicateKeys
    /\ [][\A o \in Objs :
            /\ (SavedNew(o) /\ Holders(o, SourceDataKey(mem[o])) # {})
                  => (last'.err = IntegrityError /\ storage' = storage)
            /\ (/\ SavedNew(o)
                 /\ OnlyPending(o)
                 /\ NotNullOK(Kind(o), InsertRow(o, mem[o], now))
                 /\ ForeignKeyOK(o, mem[o], storage)
                 /\ \A p \in SourceDataRows(storage) :
                       SourceDataKey(storage[p]) # SourceDataKey(mem[o]))
                  => (/\ last'.err = NoError
                      /\ o \in DOMAIN storage'
                      /\ SourceDataKey(storage'[o]) = SourceDataKey(mem[o]))]_vars

\* The save of a second source data with the key of a stored, live one has
\* failed and left it without a row.
C4_Witness ==
    /\ last.op = "save" /\ last.obj = "s2" /\ last.flush /\ last.sess = "S"
    /\ last.err = IntegrityError
    /\ "s2" \notin DOMAIN storage
    /\ "s1" \in DOMAIN storage
    /\ storage["s1"].deleted = BFalse
    /\ SourceDataKey(storage["s1"]) = SourceDataKey(mem["s2"])

\* C10: saving and flushing a new source data whose key is held by a
\* soft-deleted row fails with IntegrityError and stores nothing.
C10_SoftDeletedKeepsKey ==
    [][\A o \in Objs :
          (/\ SavedNew(o)
           /\ \E p \in Holders(o, SourceDataKey(mem[o])) : storage[p].deleted = BTrue)
          => (last'.err = IntegrityError /\ o \notin DOMAIN storage')]_vars

\* The save of a second source data with the key of a soft-deleted one has
\* failed.
C10_Witness ==
    /\ last.op = "save" /\ last.obj = "s2" /\ last.flush /\ last.sess = "S"
    /\ last.err = IntegrityError
    /\ "s2" \notin DOMAIN storage
    /\ "s1" \in DOMAIN storage
    /\ storage["s1"].deleted = BTrue
    /\ SourceDataKey(storage["s1"]) = SourceDataKey(mem["s2"])

----------------------------------------------------------------------------
\* Properties of the message hierarchy (SpecMessage).

\* C7: an agent message saved with one citation of one source data, fetched
\* again by its message_base identifier, is loaded as AgentMessage from the
\* discriminator "agent_message" and shows exactly that citation and exactly
\* that source data.
C7_PolymorphicRoundTrip ==
    /\ "m1" \in DOMAIN storage =>
          /\ storage["m1"].type = "agent_message"
          /\ LoadedClass(Id("m1"), storage) = "AgentMessage"
    /\ "ct1" \in DOMAIN storage =>
          /\ "m1" \in DOMAIN storage
          /\ citations(Id("m1"), storage) = {"ct1"}
          /\ source_data(Id("m1"), storage) = {<<"ct1", "s1">>}

\* The agent message and its citation have been saved in one flush.
C7_Witness ==
    /\ last.op = "save" /\ last.obj = "ct1" /\ last.flush /\ last.sess = "S"
    /\ last.err = NoError
    /\ {"m1", "ct1", "s1", "u1"} \subseteq DOMAIN storage
    /\ storage["m1"].created_at = storage["ct1"].created_at

====
